---------------------------- MODULE Spec2Model ----------------------------
(* A model of server/fastapi_server.py: the in-memory session store, the   *)
(* /stream responder (canned plan and HITL echo) and the dashboard data    *)
(* service (filtering and aggregation over two hardcoded tables).          *)
EXTENDS Integers, Sequences, FiniteSets, TLC

VARIABLES
  SESSIONS,   \* the process-wide session map: session id -> record
  issued,     \* the identifiers uuid4 has handed out so far
  clock,      \* the last value time.time() returned
  tables,     \* DASHBOARD_DATA_SOURCES: source id -> rows
  response,   \* the last HTTP response of a non-streaming handler
  req,        \* the /stream request being served
  pc,         \* where the /stream handler or its generator stands
  chunk,      \* index of the text chunk the generator's loop is at
  events,     \* the NDJSON events the /stream response has emitted
  checks,     \* how many times await_disconnect was called for this response
  conn,       \* the client connection of the /stream request
  call        \* the last direct application of a dashboard helper

vars == <<SESSIONS, issued, clock, tables, response, req, pc, chunk, events,
          checks, conn, call>>

sessionVars == <<SESSIONS, issued, clock>>
streamVars == <<req, pc, chunk, events, checks, conn>>

-----------------------------------------------------------------------------
(* Bounds of the model.                                                    *)

MaxIds == 2
MaxTime == 1
MaxFilters == 2
MaxRows == 2

-----------------------------------------------------------------------------
(* Python values. A JSON scalar is tagged with its type, so that None, a   *)
(* number and a string never compare equal by accident; str() is the       *)
(* conversion Python applies.                                              *)

None == [t |-> "none"]
Str(s) == [t |-> "str", s |-> s]
Num(n) == [t |-> "num", n |-> n]
List(items) == [t |-> "list", items |-> items]
MinMax(lo, hi) == [t |-> "dict", min |-> lo, max |-> hi]

IsNumber(v) == v.t = "num"

\* str(v) for a scalar: str(None) is "None", str(4100) is "4100".
PyStr(v) ==
  CASE v.t = "none" -> "None"
    [] v.t = "str" -> v.s
    [] v.t = "num" -> ToString(v.n)
    [] OTHER -> "<composite>"

\* d.get(key): the value under key, None when the key is missing.
Get(d, key) == IF key \in DOMAIN d THEN d[key] ELSE None

\* A text is a sequence of characters; lower() maps the capitals used here.
Lower(c) ==
  CASE c = "S" -> "s" [] c = "Q" -> "q" [] c = "L" -> "l"
    [] c = "R" -> "r" [] c = "I" -> "i" [] c = "K" -> "k"
    [] OTHER -> c

LowerText(text) == [k \in 1..Len(text) |-> Lower(text[k])]

\* Python's `pattern in text` on strings.
Contains(text, pattern) ==
  \E k \in 0..(Len(text) - Len(pattern)) :
    \A j \in 1..Len(pattern) : text[k + j] = pattern[j]

Last(s) == s[Len(s)]

-----------------------------------------------------------------------------
(* The /stream handler.                                                    *)

JSON == "application/json"
MULTIPART == "multipart/form-data"
ContentTypes == {JSON, MULTIPART, ""}

T_sql == <<"S", "Q", "L">>
T_mysql == <<"m", "y", "s", "q", "l">>
T_migration == <<"m", "i", "g", "r", "a", "t", "i", "o", "n">>
T_shop == <<"s", "h", "o", "p">>
InputTexts == {<<>>, T_sql, T_mysql, T_migration, T_shop}

HitlFields == {"actionId", "messageId", "sessionId", "payload", "submittedAt"}

ActionIds == {"submit_form", "modify", "edit_schema", "approve_plan", "reject", ""}
Payloads == {Str("p1"), Str("p2")}

\* The key sets a submitted hitlActionResult object is drawn with.
RawDomains ==
  { {"actionId"}, {"actionId", "payload"}, HitlFields, HitlFields \cup {"extra"},
    {"messageId"}, {} }

RawValue(f, a, p) ==
  CASE f = "actionId" -> Str(a)
    [] f = "payload" -> p
    [] f = "messageId" -> Str("m1")
    [] f = "sessionId" -> None
    [] f = "submittedAt" -> Num(7)
    [] OTHER -> Str("x")

\* The hitlActionResult member of a request body: absent, or a JSON object.
Absent == [t |-> "absent"]
RawHitls ==
  {Absent} \cup
  { [t |-> "object", obj |-> [f \in D |-> RawValue(f, a, p)]] :
      D \in RawDomains, a \in ActionIds, p \in Payloads }

StreamRequests ==
  [ctype : ContentTypes, message : InputTexts, hitl : RawHitls]

NoRequest == [ctype |-> "", message |-> <<>>, hitl |-> Absent]

\* `if raw_hitl_action_result:` an absent member and an empty object are falsy.
Truthy(raw) == raw.t = "object" /\ DOMAIN raw.obj # {}

\* HITLActionResult.model_validate accepts an object with a string actionId.
Validates(raw) ==
  /\ raw.t = "object"
  /\ "actionId" \in DOMAIN raw.obj
  /\ raw.obj["actionId"].t = "str"

\* The mutant of model_dump: the submitted object is echoed as it came.
model_dump_raw(raw) == raw.obj

\* model_validate followed by model_dump: the declared fields, in full; a
\* field the object lacks is None and a member that is no field is dropped.
model_dump(raw) == [f \in HitlFields |-> Get(raw.obj, f)]

\* The request's hitl_action_result after parsing: only a JSON body is read for it.
ParsesHitl(r) == r.ctype = JSON /\ Truthy(r.hitl)

SQ(id, prompt) == [id |-> id, prompt |-> prompt]

SQ_default ==
  << SQ("sq_generate_sql", "Generate SQL migration script for this schema."),
     SQ("sq_edit_schema", "Edit the schema with my latest changes."),
     SQ("sq_refine_constraints",
        "Refine this schema with stricter constraints and validation rules."),
     SQ("sq_add_indexes", "Suggest indexes and explain expected performance impact.") >>

SQ_submit_form ==
  << SQ("sq_generate_sql",
        "Generate SQL migration script using the approved form values."),
     SQ("sq_edit_schema", "Edit the approved schema with additional changes."),
     SQ("sq_validate_model",
        "Validate this model and list any risks or inconsistencies."),
     SQ("sq_seed_data", "Create representative seed data for this approved schema.") >>

SQ_modify ==
  << SQ("sq_generate_sql", "Generate SQL migration for the updated schema."),
     SQ("sq_edit_schema",
        "Edit core fields, data types, and enums based on feedback."),
     SQ("sq_compare_versions",
        "Compare the current schema with the previous version and summarize differences."),
     SQ("sq_collect_requirements",
        "List the missing requirements I should confirm before approval.") >>

\* The mutant of hitl_suggested_queries: edit_schema falls through to the default.
hitl_suggested_queries_modify_only(action_id) ==
  IF action_id = "submit_form" THEN SQ_submit_form
  ELSE IF action_id = "modify" THEN SQ_modify
  ELSE SQ_default

\* suggested_queries of the HITL echo, chosen by action_id.
hitl_suggested_queries(action_id) ==
  IF action_id = "submit_form" THEN SQ_submit_form
  ELSE IF action_id \in {"modify", "edit_schema"} THEN SQ_modify
  ELSE SQ_default

\* action_id = str(result_payload.get("actionId") or "")
action_id_of(result_payload) ==
  LET a == Get(result_payload, "actionId")
  IN IF a.t = "str" /\ a.s # "" THEN PyStr(a) ELSE ""

hitl_done_event(result_payload) ==
  [ render_type |-> "done",
    message |-> "HITL action result received.",
    meta |-> [ hitlActionResult |-> result_payload,
               suggestedQueries |->
                 hitl_suggested_queries(action_id_of(result_payload)) ] ]

build_suggested_queries(input_text) ==
  LET text == LowerText(input_text)
  IN IF Contains(text, T_migration) \/ Contains(text, LowerText(T_sql))
     THEN << SQ("sq_generate_sql", "Generate SQL migration script for this schema."),
             SQ("sq_edit_schema", "Edit the schema with my latest changes."),
             SQ("sq_validate_model",
                "Validate this model and list any risks or inconsistencies.") >>
     ELSE << SQ("sq_generate_sql", "Generate SQL migration script for this schema."),
             SQ("sq_edit_schema", "Edit the schema with my latest changes."),
             SQ("sq_seed_data", "Create representative seed data for this schema.") >>

total_steps == 3

chunks ==
  << "I will propose a table schema for your products. ",
     "First I will list columns and types. ",
     "Then I will return the full table payload for rendering." >>

table_rows ==
  << [id |-> "p1", name |-> "Product A", price |-> "9.99", currency |-> "USD",
      available_since |-> "2024-01-10T00:00:00Z"],
     [id |-> "p2", name |-> "Product B", price |-> "19.99", currency |-> "USD",
      available_since |-> "2024-02-15T00:00:00Z"] >>

hitl_payload ==
  [ type |-> "binary",
    title |-> "Review and approve data model plan",
    message |-> "Provide the final details, then submit the approval.",
    options |-> << [id |-> "approve_plan", label |-> "Approve",
                    description |-> "Approve and continue.",
                    style |-> [variant |-> "primary"]],
                   [id |-> "edit_schema", label |-> "Edit Schema",
                    description |-> "Make changes before approval.",
                    style |-> [variant |-> "secondary"]] >>,
    fields |-> None,
    style |-> [variant |-> "card"],
    metadata |->
      [hint |-> "Choose Approve to continue, or Edit Schema to revise first."] ]

start_event == [render_type |-> "start", total_steps |-> total_steps]
step_event(n, message) == [render_type |-> "step", message |-> message, step |-> n]
text_event(c) ==
  [render_type |-> "text", message |-> c, step |-> 1, step_name |-> "Plan overview"]
done_event(input_text) ==
  [ type |-> "done", content |-> "",
    meta |-> [ hitl |-> hitl_payload,
               tableDataString |-> table_rows,
               suggestedQueries |-> build_suggested_queries(input_text) ],
    render_type |-> "done", message |-> "" ]

\* POST /stream: parse the request, then either fail validation, answer the
\* HITL echo (one event) or hand event_stream to the streaming response.
stream(r) ==
  /\ pc = "idle"
  /\ req' = r
  /\ conn' = "open"
  /\ chunk' = 0
  /\ checks' = 0
  /\ IF ParsesHitl(r)
       THEN IF Validates(r.hitl)
              THEN /\ events' = <<hitl_done_event(model_dump(r.hitl))>>
                   /\ pc' = "end"
              ELSE /\ events' = <<>>
                   /\ pc' = "error"
       ELSE /\ events' = <<>>
            /\ pc' = "start"
  /\ UNCHANGED <<sessionVars, tables, response, call>>

Emit(e, next) ==
  /\ events' = Append(events, e)
  /\ pc' = next
  /\ UNCHANGED <<sessionVars, tables, response, call, req, conn, checks>>

EmitStart == pc = "start" /\ chunk' = chunk /\ Emit(start_event, "step1")

EmitStep1 ==
  /\ pc = "step1"
  /\ chunk' = 1
  /\ Emit(step_event(1, "Plan overview"), "check")

\* req.is_disconnected(); an exception of it counts as disconnected.
await_disconnect == conn # "open"

\* The mutant of CheckDisconnect: the answer of the check is not acted on.
CheckDisconnect_ignored ==
  /\ pc = "check"
  /\ checks' = checks + 1
  /\ pc' = "text"
  /\ UNCHANGED <<sessionVars, tables, response, call, req, conn, chunk, events>>

\* `if await await_disconnect(request): return` at the head of the chunk loop
CheckDisconnect ==
  /\ pc = "check"
  /\ checks' = checks + 1
  /\ pc' = IF await_disconnect THEN "aborted" ELSE "text"
  /\ UNCHANGED <<sessionVars, tables, response, call, req, conn, chunk, events>>

\* The mutant of EmitText: the chunks come out in reverse.
EmitText_reversed ==
  /\ pc = "text"
  /\ chunk' = chunk
  /\ Emit(text_event(chunks[Len(chunks) + 1 - chunk]), "sleep")

EmitText ==
  /\ pc = "text"
  /\ chunk' = chunk
  /\ Emit(text_event(chunks[chunk]), "sleep")

\* The mutant of Sleep: the loop goes on to the next chunk without a check.
Sleep_unchecked ==
  /\ pc = "sleep"
  /\ IF chunk < Len(chunks)
       THEN chunk' = chunk + 1 /\ pc' = "text"
       ELSE chunk' = chunk /\ pc' = "step2"
  /\ UNCHANGED <<sessionVars, tables, response, call, req, conn, events, checks>>

\* await asyncio.sleep(2), then the next round of the loop or the code after it
Sleep ==
  /\ pc = "sleep"
  /\ IF chunk < Len(chunks)
       THEN chunk' = chunk + 1 /\ pc' = "check"
       ELSE chunk' = chunk /\ pc' = "step2"
  /\ UNCHANGED <<sessionVars, tables, response, call, req, conn, events, checks>>

EmitStep2 ==
  pc = "step2" /\ chunk' = chunk /\ Emit(step_event(2, "Prepare table payload"), "step3")

EmitStep3 == pc = "step3" /\ chunk' = chunk /\ Emit(step_event(3, "Finalize"), "done")

EmitDone == pc = "done" /\ chunk' = chunk /\ Emit(done_event(req.message), "end")

Finished == pc \in {"end", "aborted", "error"}
InFlight == pc # "idle" /\ ~Finished

\* The response is over and the handler's locals are gone; the server is
\* ready for the next /stream request.
StreamCompletes ==
  /\ Finished
  /\ req' = NoRequest
  /\ pc' = "idle"
  /\ chunk' = 0
  /\ events' = <<>>
  /\ checks' = 0
  /\ conn' = "open"
  /\ UNCHANGED <<sessionVars, tables, response, call>>

\* The client goes away while the response is being streamed.
ClientDisconnects ==
  /\ InFlight
  /\ conn = "open"
  /\ conn' = "closed"
  /\ UNCHANGED <<sessionVars, tables, response, call, req, pc, chunk, events, checks>>

\* The connection breaks so that is_disconnected() raises.
ConnectionBreaks ==
  /\ InFlight
  /\ conn = "open"
  /\ conn' = "broken"
  /\ UNCHANGED <<sessionVars, tables, response, call, req, pc, chunk, events, checks>>

EventStream ==
  \/ EmitStart
  \/ EmitStep1
  \/ CheckDisconnect
  \/ EmitText
  \/ Sleep
  \/ EmitStep2
  \/ EmitStep3
  \/ EmitDone

-----------------------------------------------------------------------------
(* The dashboard data service.                                             *)

\* The keys of a row, in the order the literals list them.
Columns ==
  <<"name", "imports_exports", "industries", "products", "region", "country",
    "value", "prev">>

Row(name, imports_exports, industries, products, region, country, value, prev) ==
  [ name |-> Str(name), imports_exports |-> Str(imports_exports),
    industries |-> Str(industries), products |-> Str(products),
    region |-> Str(region), country |-> Str(country),
    value |-> Num(value), prev |-> Num(prev) ]

GLOBAL_TRADE == "global-trade"
MANUFACTURING_RISK == "manufacturing-risk"

DASHBOARD_DATA_SOURCES ==
  [ s \in {GLOBAL_TRADE, MANUFACTURING_RISK} |->
      IF s = GLOBAL_TRADE
      THEN [ label |-> "Global Trade Overview",
             rows |-> <<
  Row("Jan", "Imports", "Electronics", "Trade Finance", "APAC", "India", 4100, 3800),
  Row("Feb", "Exports", "Electronics", "Cross-border Payments", "EMEA", "Germany", 4300, 4020),
  Row("Mar", "Imports", "Automotive", "Supply Chain Finance", "APAC", "Japan", 4550, 4200),
  Row("Apr", "Exports", "Pharma", "Trade Finance", "Americas", "USA", 4700, 4400),
  Row("May", "Imports", "Energy", "Commodity Credit", "EMEA", "UAE", 5200, 4880),
  Row("Jun", "Exports", "Automotive", "Supply Chain Finance", "Americas", "Mexico", 5450, 5100),
  Row("Jul", "Imports", "Pharma", "Cross-border Payments", "APAC", "Singapore", 5680, 5300) >> ]
      ELSE [ label |-> "Manufacturing Risk Lens",
             rows |-> <<
  Row("Jan", "Imports", "Metals", "Letters of Credit", "EMEA", "Turkey", 3600, 3400),
  Row("Feb", "Exports", "Chemicals", "Insurance", "APAC", "China", 3900, 3650),
  Row("Mar", "Imports", "Industrial Goods", "Factoring", "Americas", "Brazil", 4200, 3850),
  Row("Apr", "Exports", "Textiles", "Receivables", "APAC", "Vietnam", 4380, 4100),
  Row("May", "Imports", "Chemicals", "Insurance", "EMEA", "Poland", 4620, 4300),
  Row("Jun", "Exports", "Metals", "Letters of Credit", "Americas", "Canada", 4850, 4500),
  Row("Jul", "Imports", "Industrial Goods", "Factoring", "APAC", "Thailand", 5080, 4720) >> ] ]

\* The mutant of get_dashboard_source: the fallback is the other table.
get_dashboard_source_other_default(source_id) ==
  IF source_id \in DOMAIN tables THEN tables[source_id]
  ELSE tables["manufacturing-risk"]

\* DASHBOARD_DATA_SOURCES.get(source_id) or DASHBOARD_DATA_SOURCES["global-trade"]
get_dashboard_source(source_id) ==
  IF source_id \in DOMAIN tables THEN tables[source_id] ELSE tables[GLOBAL_TRADE]

\* float(s) of the numeric strings a filter is drawn with.
ParseFloat(s) ==
  CASE s = "4000" -> 4000
    [] s = "5000" -> 5000
    [] OTHER -> 0
NumericStrings == {"4000", "5000"}

\* float(v) returns for a number and for a numeric string.
Floatable(v) == v.t = "num" \/ (v.t = "str" /\ v.s \in NumericStrings)
Float(v) == IF v.t = "num" THEN v.n ELSE ParseFloat(v.s)
\* What float(v) raises otherwise.
FloatError(v) == IF v.t = "str" THEN "ValueError" ELSE "TypeError"

Ok(rows) == [ok |-> TRUE, rows |-> rows]
Raised(e) == [ok |-> FALSE, error |-> e]

\* isinstance(row.get(key), (int, float)) and
\*   float(lower) <= float(row.get(key)) <= float(upper)
\* for one row: "keep", "drop", or the exception a float() raises. `and` and
\* the chained comparison evaluate from the left and stop early.
RangeTest(row, key, lower, upper) ==
  LET cell == Get(row, key)
  IN IF ~IsNumber(cell) THEN "drop"
     ELSE IF ~Floatable(lower) THEN FloatError(lower)
     ELSE IF ~(Float(lower) <= cell.n) THEN "drop"
     ELSE IF ~Floatable(upper) THEN FloatError(upper)
     ELSE IF cell.n <= Float(upper) THEN "keep" ELSE "drop"

\* The list comprehension of a range filter: the kept rows, or the first
\* exception raised while going through the rows.
RangeFilter(rows, key, lower, upper) ==
  LET Bad(k) == RangeTest(rows[k], key, lower, upper) \notin {"keep", "drop"}
      Kept(row) == RangeTest(row, key, lower, upper) = "keep"
  IN IF \E k \in 1..Len(rows) : Bad(k)
     THEN Raised(RangeTest(
            rows[CHOOSE k \in 1..Len(rows) : Bad(k) /\ \A j \in 1..(k - 1) : ~Bad(j)],
            key, lower, upper))
     ELSE Ok(SelectSeq(rows, Kept))

\* One round of the loop over filters.items() in apply_dashboard_filters.
ApplyOneFilter(rows, key, value) ==
  LET Equal(row) == PyStr(Get(row, key)) = PyStr(value)
  IN IF value \in {None, Str(""), Str("All")} THEN Ok(rows)
     ELSE IF value.t = "list" /\ Len(value.items) = 2
     THEN RangeFilter(rows, key, value.items[1], value.items[2])
     ELSE IF value.t = "dict" /\ {"min", "max"} \subseteq DOMAIN value
     THEN RangeFilter(rows, key, value.min, value.max)
     ELSE Ok(SelectSeq(rows, Equal))

RECURSIVE apply_dashboard_filters(_, _)
\* filters is the dict's items in insertion order: a sequence of <<key, value>>.
apply_dashboard_filters(rows, filters) ==
  IF filters = <<>> THEN Ok(rows)
  ELSE LET first == ApplyOneFilter(rows, filters[1][1], filters[1][2])
       IN IF first.ok THEN apply_dashboard_filters(first.rows, Tail(filters))
          ELSE first

\* int(row.get(key, 0))
IntOf(row, key) == IF key \in DOMAIN row THEN row[key].n ELSE 0

RECURSIVE SumOf(_, _)
\* sum(int(row.get(key, 0)) for row in rows)
SumOf(rows, key) ==
  IF rows = <<>> THEN 0 ELSE IntOf(rows[1], key) + SumOf(Tail(rows), key)

Abs(n) == IF n < 0 THEN -n ELSE n
Min2(a, b) == IF a <= b THEN a ELSE b
Max2(a, b) == IF a >= b THEN a ELSE b

\* int(x / 120): the quotient truncated towards zero.
TruncDiv(n, d) == IF n >= 0 THEN n \div d ELSE -((-n) \div d)

\* f"{x:.1f}" of x = num / den (den > 0), as the count of tenths of |x|,
\* rounded to nearest, ties to even.
Tenths(num, den) ==
  LET q == (Abs(num) * 10) \div den
      r == (Abs(num) * 10) % den
  IN IF 2 * r > den THEN q + 1
     ELSE IF 2 * r = den THEN q + (q % 2)
     ELSE q

T_risk == <<"r", "i", "s", "k">>
RISK_DIVISOR == 120

\* The mutant of Kpi: only a negative previous total is guarded against
\* (`<` for `<=`), a zero one being taken as 1.
Kpi_zero_prev_unguarded(rows, prompt) ==
  LET total_current == SumOf(rows, "value")
      total_prev == SumOf(rows, "prev")
      num == IF total_prev < 0 THEN 0 ELSE (total_current - total_prev) * 100
      den == IF total_prev <= 0 THEN 1 ELSE total_prev
  IN << [ value |-> IF Contains(LowerText(prompt), T_risk)
                    THEN [kind |-> "score",
                          n |-> Min2(100, Max2(0, TruncDiv(total_current, RISK_DIVISOR)))]
                    ELSE [kind |-> "money", n |-> total_current],
          change |-> [sign |-> IF num >= 0 THEN "+" ELSE "-", tenths |-> Tenths(num, den)],
          positive |-> (num >= 0) ] >>

\* The kpi branch of build_dashboard_response. change_pct is num / den; the
\* change string is its sign and its tenths.
Kpi(rows, prompt) ==
  LET total_current == SumOf(rows, "value")
      total_prev == SumOf(rows, "prev")
      num == IF total_prev <= 0 THEN 0 ELSE (total_current - total_prev) * 100
      den == IF total_prev <= 0 THEN 1 ELSE total_prev
  IN << [ value |-> IF Contains(LowerText(prompt), T_risk)
                    THEN [kind |-> "score",
                          n |-> Min2(100, Max2(0, TruncDiv(total_current, RISK_DIVISOR)))]
                    ELSE [kind |-> "money", n |-> total_current],
          change |-> [sign |-> IF num >= 0 THEN "+" ELSE "-", tenths |-> Tenths(num, den)],
          positive |-> (num >= 0) ] >>

\* The keys of a row in insertion order.
RowKeys(row) == SelectSeq(Columns, LAMBDA c : c \in DOMAIN row)

\* The mutant of GroupColumn: the name column is not left out of the
\* candidates.
GroupColumn_includes_name(rows) ==
  IF rows = <<>> THEN "industries"
  ELSE LET string_columns ==
             SelectSeq(RowKeys(rows[1]), LAMBDA c : rows[1][c].t = "str")
       IN IF string_columns = <<>> THEN "industries" ELSE string_columns[1]

\* group_column of the pie branch.
GroupColumn(rows) ==
  IF rows = <<>> THEN "industries"
  ELSE LET string_columns ==
             SelectSeq(RowKeys(rows[1]),
                       LAMBDA c : rows[1][c].t = "str" /\ c # "name")
       IN IF string_columns = <<>> THEN "industries" ELSE string_columns[1]

\* The mutant of GroupValue: without the `or "Unknown"`.
GroupValue_no_default(row, col) == PyStr(Get(row, col))

\* str(row.get(group_column) or "Unknown")
GroupValue(row, col) ==
  LET v == Get(row, col)
  IN IF v = None \/ v = Str("") \/ v = Num(0) THEN "Unknown" ELSE PyStr(v)

RECURSIVE Grouped(_, _, _)
\* The dict `grouped` after the loop, as its items in insertion order.
Grouped(rows, col, acc) ==
  IF rows = <<>> THEN acc
  ELSE LET g == GroupValue(rows[1], col)
           at == {k \in 1..Len(acc) : acc[k][1] = g}
           add == IntOf(rows[1], "value")
       IN Grouped(Tail(rows), col,
                  IF at = {} THEN Append(acc, <<g, add>>)
                  ELSE [k \in 1..Len(acc) |->
                          IF k \in at THEN <<g, acc[k][2] + add>> ELSE acc[k]])

Pie(rows) ==
  LET col == GroupColumn(rows)
      items == Grouped(rows, col, <<>>)
  IN [k \in 1..Len(items) |->
        [name |-> items[k][1], value |-> items[k][2],
         _filterKey |-> col, _filterValue |-> items[k][1]]]

RECURSIVE MinOf(_, _)
MinOf(rows, key) ==
  IF Len(rows) = 1 THEN IntOf(rows[1], key)
  ELSE Min2(IntOf(rows[1], key), MinOf(Tail(rows), key))

RECURSIVE MaxOf(_, _)
MaxOf(rows, key) ==
  IF Len(rows) = 1 THEN IntOf(rows[1], key)
  ELSE Max2(IntOf(rows[1], key), MaxOf(Tail(rows), key))

FilterRange(rows) ==
  IF rows = <<>> THEN <<0, 100>> ELSE <<MinOf(rows, "value"), MaxOf(rows, "value")>>

build_dashboard_response(widget_type, rows, prompt) ==
  CASE widget_type = "filter-range" -> FilterRange(rows)
    [] widget_type = "pie" -> Pie(rows)
    [] widget_type = "kpi" -> Kpi(rows, prompt)
    [] OTHER -> rows

\* Python's order of the strings found in the tables (sorted() of them all).
SORT_ORDER ==
  << "3400", "3600", "3650", "3800", "3850", "3900", "4020", "4100", "4200",
     "4300", "4380", "4400", "4500", "4550", "4620", "4700", "4720", "4850",
     "4880", "5080", "5100", "5200", "5300", "5450", "5680", "APAC", "Americas",
     "Apr", "Automotive", "Brazil", "Canada", "Chemicals", "China",
     "Commodity Credit", "Cross-border Payments", "EMEA", "Electronics",
     "Energy", "Exports", "Factoring", "Feb", "Germany", "Imports", "India",
     "Industrial Goods", "Insurance", "Jan", "Japan", "Jul", "Jun",
     "Letters of Credit", "Mar", "May", "Metals", "Mexico", "Pharma", "Poland",
     "Receivables", "Singapore", "Supply Chain Finance", "Textiles", "Thailand",
     "Trade Finance", "Turkey", "UAE", "USA", "Vietnam" >>

\* sorted(list(S)) for a set S of strings.
Sorted(S) == SelectSeq(SORT_ORDER, LAMBDA s : s \in S)

\* The distinct str() of the non-None, non-blank values of a column.
ColumnStrings(rows, column) ==
  { PyStr(Get(rows[k], column)) :
      k \in {j \in 1..Len(rows) : Get(rows[j], column) # None
                                   /\ PyStr(Get(rows[j], column)) # ""} }

get_dashboard_column_options(rows, column) ==
  <<"All">> \o Sorted(ColumnStrings(rows, column))

\* One column record of infer_dashboard_schema.
ColumnRecord(rows, name) ==
  LET present == {k \in 1..Len(rows) : Get(rows[k], name) # None}
      sample_value ==
        IF present = {} THEN None
        ELSE Get(rows[CHOOSE k \in present : \A j \in present : k <= j], name)
      value_type ==
        CASE sample_value.t = "num" -> "number"
          [] sample_value.t = "str" -> "string"
          [] OTHER -> "unknown"
      unique_values ==
        IF value_type = "string" THEN Sorted(ColumnStrings(rows, name)) ELSE <<>>
      numeric == {k \in 1..Len(rows) : IsNumber(Get(rows[k], name))}
      numeric_rows == SelectSeq(rows, LAMBDA row : IsNumber(Get(row, name)))
      filterable ==
        CASE value_type = "string" -> Len(unique_values) > 0
          [] value_type = "number" -> numeric # {}
          [] OTHER -> FALSE
  IN IF filterable /\ value_type = "string"
     THEN [name |-> name, type |-> value_type, filterable |-> filterable,
           options |-> <<"All">> \o unique_values]
     ELSE IF filterable /\ value_type = "number"
     THEN [name |-> name, type |-> value_type, filterable |-> filterable,
           min |-> MinOf(numeric_rows, name), max |-> MaxOf(numeric_rows, name)]
     ELSE [name |-> name, type |-> value_type, filterable |-> filterable]

infer_dashboard_schema(rows) ==
  IF rows = <<>> THEN [columns |-> <<>>]
  ELSE LET column_names == RowKeys(rows[1])
       IN [columns |-> [k \in 1..Len(column_names) |->
                          ColumnRecord(rows, column_names[k])]]

\* An HTTP response of a handler that does not stream.
Respond(op, status, body) == [op |-> op, status |-> status, body |-> body]

\* GET /dashboard/data-sources
list_dashboard_data_sources ==
  /\ response' = Respond("list_dashboard_data_sources", 200,
       [sources |-> << [id |-> GLOBAL_TRADE, label |-> tables[GLOBAL_TRADE].label],
                       [id |-> MANUFACTURING_RISK,
                        label |-> tables[MANUFACTURING_RISK].label] >>])
  /\ UNCHANGED <<sessionVars, tables, streamVars, call>>

\* What GET /dashboard/schema returns; source is "" when the query parameter
\* is not given.
SchemaResult(source) ==
  LET selected_source == IF source = "" THEN GLOBAL_TRADE ELSE source
      source_record == get_dashboard_source(selected_source)
  IN Respond("get_dashboard_schema", 200,
       [source |-> selected_source,
        schema |-> infer_dashboard_schema(source_record.rows)])

\* GET /dashboard/schema
get_dashboard_schema(source) ==
  /\ response' = SchemaResult(source)
  /\ UNCHANGED <<sessionVars, tables, streamVars, call>>

\* The mutant of query_dashboard_data: the filtered rows are written back
\* to the source's table.
query_dashboard_data_in_place(payload) ==
  LET source_record == get_dashboard_source(payload.source)
      rows == apply_dashboard_filters(source_record.rows, payload.filters)
      src == IF payload.source \in DOMAIN tables THEN payload.source ELSE GLOBAL_TRADE
  IN /\ response' =
          IF rows.ok
          THEN Respond("query_dashboard_data", 200,
                 [source |-> payload.source, widgetType |-> payload.widgetType,
                  data |-> build_dashboard_response(payload.widgetType, rows.rows,
                                                    payload.prompt)])
          ELSE Respond("query_dashboard_data", 500, [error |-> rows.error])
     /\ tables' = IF rows.ok THEN [tables EXCEPT ![src].rows = rows.rows] ELSE tables
     /\ UNCHANGED <<sessionVars, streamVars, call>>

\* What POST /dashboard/query returns. A body without a required field of
\* DashboardQueryRequest is refused with 422 before the handler runs; an
\* exception of the filters is a 500 response.
QueryResult(payload) ==
  LET source_record == get_dashboard_source(payload.source)
      rows == apply_dashboard_filters(source_record.rows, payload.filters)
  IN IF ~({"source", "widgetType"} \subseteq DOMAIN payload)
     THEN Respond("query_dashboard_data", 422, [error |-> "Field required"])
     ELSE IF rows.ok
     THEN Respond("query_dashboard_data", 200,
            [source |-> payload.source, widgetType |-> payload.widgetType,
             data |-> build_dashboard_response(payload.widgetType, rows.rows,
                                               payload.prompt)])
     ELSE Respond("query_dashboard_data", 500, [error |-> rows.error])

\* POST /dashboard/query
query_dashboard_data(payload) ==
  /\ response' = QueryResult(payload)
  /\ UNCHANGED <<sessionVars, tables, streamVars, call>>

\* The mutant of OptionsResult: the filter on the column itself is applied
\* like the others.
OptionsResult_unscoped(payload) ==
  LET source_record == get_dashboard_source(payload.source)
      rows == apply_dashboard_filters(source_record.rows, payload.filters)
  IN IF ~({"source", "column"} \subseteq DOMAIN payload)
     THEN Respond("get_dashboard_options", 422, [error |-> "Field required"])
     ELSE IF rows.ok
     THEN Respond("get_dashboard_options", 200,
            [source |-> payload.source, column |-> payload.column,
             options |-> get_dashboard_column_options(rows.rows, payload.column)])
     ELSE Respond("get_dashboard_options", 500, [error |-> rows.error])

\* What POST /dashboard/options returns. A body without a required field
\* of DashboardOptionsRequest is refused with 422.
OptionsResult(payload) ==
  LET source_record == get_dashboard_source(payload.source)
      scoped_filters == SelectSeq(payload.filters, LAMBDA f : f[1] # payload.column)
      rows == apply_dashboard_filters(source_record.rows, scoped_filters)
  IN IF ~({"source", "column"} \subseteq DOMAIN payload)
     THEN Respond("get_dashboard_options", 422, [error |-> "Field required"])
     ELSE IF rows.ok
     THEN Respond("get_dashboard_options", 200,
            [source |-> payload.source, column |-> payload.column,
             options |-> get_dashboard_column_options(rows.rows, payload.column)])
     ELSE Respond("get_dashboard_options", 500, [error |-> rows.error])

\* POST /dashboard/options
get_dashboard_options(payload) ==
  /\ response' = OptionsResult(payload)
  /\ UNCHANGED <<sessionVars, tables, streamVars, call>>

-----------------------------------------------------------------------------
(* The session store. SESSIONS is a dict: its items in insertion order, as *)
(* a sequence of <<key, record>> with no key twice.                        *)

Keys(d) == {d[k][1] : k \in 1..Len(d)}
Lookup(d, key) == d[CHOOSE k \in 1..Len(d) : d[k][1] = key][2]
\* list(d.values())
Values(d) == [k \in 1..Len(d) |-> d[k][2]]
\* d[key] = value
SetItem(d, key, value) ==
  IF key \in Keys(d)
  THEN [k \in 1..Len(d) |-> IF d[k][1] = key THEN <<key, value>> ELSE d[k]]
  ELSE Append(d, <<key, value>>)

\* str(uuid.uuid4()): its first eight characters and the rest.
UUID_HEAD == "0a1b2c3d"
Uuids == {<<UUID_HEAD, n>> : n \in 1..MaxIds}
\* sid[:8]
Head8(sid) == sid[1]

\* time.time() returns t: the clock does not run backwards.
Times == clock..MaxTime

SessionPayloads ==
  { [title |-> Str("")],
    [agent |-> Str("data-modeler"), title |-> Str("Products")] }

\* GET /sessions
list_sessions ==
  /\ response' = Respond("list_sessions", 200, Values(SESSIONS))
  /\ UNCHANGED <<sessionVars, tables, streamVars, call>>

NewSession(sid, payload, t1, t2) ==
  [ id |-> sid,
    agent |-> Get(payload, "agent"),
    title |-> IF Get(payload, "title") \in {None, Str("")}
              THEN Str("Session " \o Head8(sid))
              ELSE Get(payload, "title"),
    createdAt |-> t1,
    lastUpdated |-> t2 ]

\* The mutant of create_session: the new session is stored under the
\* eight-character prefix its title shows.
create_session_prefix_key(payload) ==
  \E sid \in Uuids \ issued, t1 \in Times :
    \E t2 \in t1..MaxTime :
      /\ SESSIONS' = SetItem(SESSIONS, <<Head8(sid), 1>>, NewSession(sid, payload, t1, t2))
      /\ issued' = issued \cup {sid}
      /\ clock' = t2
      /\ response' = Respond("create_session", 200, NewSession(sid, payload, t1, t2))
      /\ UNCHANGED <<tables, streamVars, call>>

\* POST /sessions; uuid4 hands out an identifier it has not handed out before.
create_session(payload) ==
  \E sid \in Uuids \ issued, t1 \in Times :
    \E t2 \in t1..MaxTime :
      /\ SESSIONS' = SetItem(SESSIONS, sid, NewSession(sid, payload, t1, t2))
      /\ issued' = issued \cup {sid}
      /\ clock' = t2
      /\ response' = Respond("create_session", 200, NewSession(sid, payload, t1, t2))
      /\ UNCHANGED <<tables, streamVars, call>>

\* The mutant of touch_session: an unknown identifier gets a session made.
touch_session_upsert(session_id) ==
  \E t \in Times :
    /\ SESSIONS' =
         IF session_id \in Keys(SESSIONS)
         THEN SetItem(SESSIONS, session_id,
                      [Lookup(SESSIONS, session_id) EXCEPT !.lastUpdated = t])
         ELSE SetItem(SESSIONS, session_id, NewSession(session_id, <<>>, t, t))
    /\ clock' = t
    /\ response' = Respond("touch_session", 200, [ok |-> TRUE])
    /\ UNCHANGED <<issued, tables, streamVars, call>>

\* PUT /sessions/{session_id}
touch_session(session_id) ==
  IF session_id \in Keys(SESSIONS)
  THEN \E t \in Times :
         /\ SESSIONS' = SetItem(SESSIONS, session_id,
                                [Lookup(SESSIONS, session_id) EXCEPT !.lastUpdated = t])
         /\ clock' = t
         /\ response' = Respond("touch_session", 200, [ok |-> TRUE])
         /\ UNCHANGED <<issued, tables, streamVars, call>>
  ELSE /\ response' = Respond("touch_session", 404, [ok |-> FALSE])
       /\ UNCHANGED <<sessionVars, tables, streamVars, call>>

\* POST /createDataModel
create_data_model(payload) ==
  \E job_id \in Uuids \ issued :
    /\ issued' = issued \cup {job_id}
    /\ response' = Respond("create_data_model", 200,
                           [jobId |-> job_id, received |-> payload])
    /\ UNCHANGED <<SESSIONS, clock, tables, streamVars, call>>

\* OPTIONS /sessions and OPTIONS /sessions/{session_id}
options_sessions ==
  /\ response' = Respond("options", 200, <<>>)
  /\ UNCHANGED <<sessionVars, tables, streamVars, call>>

\* The mutant of clear_sessions: the oldest session survives.
clear_sessions_keep_first ==
  /\ SESSIONS' = IF SESSIONS = <<>> THEN <<>> ELSE <<SESSIONS[1]>>
  /\ response' = Respond("clear_sessions", 200, [ok |-> TRUE])
  /\ UNCHANGED <<issued, clock, tables, streamVars, call>>

\* DELETE /sessions
clear_sessions ==
  /\ SESSIONS' = <<>>
  /\ response' = Respond("clear_sessions", 200, [ok |-> TRUE])
  /\ UNCHANGED <<issued, clock, tables, streamVars, call>>

-----------------------------------------------------------------------------
(* The requests the handlers are driven with.                              *)

\* /stream requests of the whole-server specification: one answered by the
\* canned plan and one by the HITL echo.
ServedStreamRequests ==
  { [ctype |-> JSON, message |-> T_sql, hitl |-> Absent],
    [ctype |-> JSON, message |-> <<>>,
     hitl |-> [t |-> "object", obj |-> [f \in {"actionId"} |-> Str("approve_plan")]]] }

WidgetTypes == {"kpi"}

\* /dashboard/query and /dashboard/options payloads of the whole-server
\* specification.
ServedQueries ==
  [ source : {MANUFACTURING_RISK, "inventory"}, widgetType : WidgetTypes,
    prompt : {T_risk}, filters : {<< <<"region", Str("APAC")>> >>} ]
ServedOptions ==
  [ source : {GLOBAL_TRADE}, column : {"region"},
    filters : {<< <<"region", Str("APAC")>>, <<"industries", Str("Pharma")>> >>} ]

\* The filter values and keys apply_dashboard_filters is applied to.
FilterValues ==
  { None, Str(""), Str("All"), Str("Electronics"), Str("APAC"), Str("None"),
    Str("4100"), Num(4100),
    List(<<Num(4000), Num(5000)>>), List(<<Str("4000"), Str("5000")>>),
    List(<<Num(5000), Num(4000)>>), List(<<Str("a"), Str("b")>>),
    List(<<Num(4000), None>>), List(<<Num(1), Num(2), Num(3)>>),
    MinMax(Num(4100), Num(4700)), MinMax(None, Num(5000)),
    [t |-> "dict", min |-> Num(4000)] }
FilterKeys == {"industries", "region", "value", "sector"}
FilterItems == FilterKeys \X FilterValues

RECURSIVE FilterDicts(_)
\* The dicts of at most n items: sequences of items with no key twice.
FilterDicts(n) ==
  IF n = 0 THEN {<<>>}
  ELSE LET shorter == FilterDicts(n - 1)
       IN shorter \cup
          { Append(d, item) : d \in {e \in shorter : Len(e) = n - 1},
                              item \in FilterItems }

DistinctKeys(d) == \A j, k \in 1..Len(d) : j # k => d[j][1] # d[k][1]
Filters == {d \in FilterDicts(MaxFilters) : DistinctKeys(d)}

\* Rows the kpi aggregation is applied to: value and prev are numbers or
\* missing.
KpiValues == {-240, 90, 120, 12500}
KpiPrevs == {-50, 0, 100, 120}
KpiRows ==
  { [value |-> Num(v), prev |-> Num(p)] : v \in KpiValues, p \in KpiPrevs }
  \cup { [value |-> Num(v)] : v \in KpiValues }
  \cup { [prev |-> Num(p)] : p \in KpiPrevs }
  \cup { [name |-> Str("Jan")] }

RECURSIVE RowSeqs(_)
RowSeqs(n) ==
  IF n = 0 THEN {<<>>}
  ELSE LET shorter == RowSeqs(n - 1)
       IN shorter \cup
          { Append(rows, row) : rows \in {e \in shorter : Len(e) = n - 1},
                                row \in KpiRows }

T_RISK_upper == <<"R", "I", "S", "K">>
T_brisk == <<"b", "r", "i", "s", "k">>
T_rise == <<"r", "i", "s", "e">>
Prompts == {<<>>, T_risk, T_RISK_upper, T_brisk, T_rise}

\* apply_dashboard_filters applied to a table and a filter dict.
CallApplyFilters ==
  /\ call.fn = "none"
  /\ \E source \in DOMAIN tables, filters \in Filters :
    /\ call' = [ fn |-> "apply_dashboard_filters",
                 rows |-> tables[source].rows,
                 filters |-> filters,
                 out |-> apply_dashboard_filters(tables[source].rows, filters) ]
    /\ UNCHANGED <<sessionVars, tables, streamVars, response>>

\* build_dashboard_response("kpi", rows, prompt) applied to rows and a prompt.
CallKpi ==
  /\ call.fn = "none"
  /\ \E rows \in RowSeqs(MaxRows) \cup {tables[s].rows : s \in DOMAIN tables},
        prompt \in Prompts :
    /\ call' = [ fn |-> "build_dashboard_response",
                 widget_type |-> "kpi",
                 rows |-> rows,
                 prompt |-> prompt,
                 out |-> build_dashboard_response("kpi", rows, prompt) ]
    /\ UNCHANGED <<sessionVars, tables, streamVars, response>>

\* Rows that lack some of the columns, which no row of the tables does.
SparseRows ==
  { [name |-> Str("Jan"), industries |-> Str("Pharma"), value |-> Num(4100)],
    [name |-> Str("Feb"), region |-> Str("APAC"), prev |-> Num(3800)],
    [name |-> Str("Mar")],
    [industries |-> Str("Energy"), region |-> Str("EMEA"),
     value |-> Num(5200), prev |-> Num(4880)] }

RECURSIVE SparseRowSeqs(_)
SparseRowSeqs(n) ==
  IF n = 0 THEN {<<>>}
  ELSE LET shorter == SparseRowSeqs(n - 1)
       IN shorter \cup
          { Append(rows, row) : rows \in {e \in shorter : Len(e) = n - 1},
                                row \in SparseRows }

\* The rows query_dashboard_data hands to build_dashboard_response: a table
\* after no filter or one filter that does not raise.
FilteredRows ==
  LET served == {<<>>} \cup {<<item>> : item \in FilterItems}
      Out(s, f) == apply_dashboard_filters(tables[s].rows, f)
  IN { Out(p[1], p[2]).rows :
         p \in {q \in (DOMAIN tables) \X served : Out(q[1], q[2]).ok} }

\* The widget types of the three aggregations, and one that is none of them.
AllWidgetTypes == {"filter-range", "pie", "kpi", "bar"}

\* build_dashboard_response applied to rows and a widget type.
CallBuildResponse ==
  /\ call.fn = "none"
  /\ \E rows \in FilteredRows \cup SparseRowSeqs(MaxRows),
        widget_type \in AllWidgetTypes :
    /\ call' = [ fn |-> "build_dashboard_response",
                 widget_type |-> widget_type,
                 rows |-> rows,
                 prompt |-> <<>>,
                 out |-> build_dashboard_response(widget_type, rows, <<>>) ]
    /\ UNCHANGED <<sessionVars, tables, streamVars, response>>

\* apply_dashboard_filters applied to rows that lack columns and to no
\* filter or one.
CallApplyFiltersSparse ==
  /\ call.fn = "none"
  /\ \E rows \in SparseRowSeqs(MaxRows),
        filters \in {<<>>} \cup {<<item>> : item \in FilterItems} :
    /\ call' = [ fn |-> "apply_dashboard_filters",
                 rows |-> rows,
                 filters |-> filters,
                 out |-> apply_dashboard_filters(rows, filters) ]
    /\ UNCHANGED <<sessionVars, tables, streamVars, response>>

\* get_dashboard_column_options applied to rows and a column name.
CallColumnOptions ==
  /\ call.fn = "none"
  /\ \E rows \in FilteredRows \cup SparseRowSeqs(MaxRows), column \in FilterKeys :
    /\ call' = [ fn |-> "get_dashboard_column_options",
                 rows |-> rows,
                 column |-> column,
                 out |-> get_dashboard_column_options(rows, column) ]
    /\ UNCHANGED <<sessionVars, tables, streamVars, response>>

\* The helper has returned; the next application starts afresh.
CallReturns ==
  /\ call.fn # "none"
  /\ call' = [fn |-> "none"]
  /\ UNCHANGED <<sessionVars, tables, streamVars, response>>

-----------------------------------------------------------------------------
Init ==
  /\ SESSIONS = <<>>
  /\ issued = {}
  /\ clock = 0
  /\ tables = DASHBOARD_DATA_SOURCES
  /\ response = Respond("none", 0, <<>>)
  /\ req = NoRequest
  /\ pc = "idle"
  /\ chunk = 0
  /\ events = <<>>
  /\ checks = 0
  /\ conn = "open"
  /\ call = [fn |-> "none"]

SessionHandlers ==
  \/ list_sessions
  \/ \E payload \in SessionPayloads : create_session(payload)
  \/ \E session_id \in Uuids : touch_session(session_id)
  \/ clear_sessions

OtherHandlers ==
  \/ \E payload \in {[topic |-> Str("products")]} : create_data_model(payload)
  \/ options_sessions
  \/ list_dashboard_data_sources
  \/ \E source \in {""} : get_dashboard_schema(source)
  \/ \E payload \in ServedQueries : query_dashboard_data(payload)
  \/ \E payload \in ServedOptions : get_dashboard_options(payload)

StreamSteps ==
  \/ EventStream
  \/ StreamCompletes
  \/ ClientDisconnects
  \/ ConnectionBreaks

\* The whole server: any handler may run between two steps of a stream.
Next ==
  \/ SessionHandlers
  \/ OtherHandlers
  \/ \E r \in ServedStreamRequests : stream(r)
  \/ StreamSteps

Spec == Init /\ [][Next]_vars

\* The /stream handler alone, over all its requests.
NextStream ==
  \/ \E r \in StreamRequests : stream(r)
  \/ StreamSteps

SpecStream == Init /\ [][NextStream]_vars

\* The same, the event loop running the generator whenever it can take a
\* step: no await of event_stream blocks for ever.
SpecStreamLive == SpecStream /\ WF_vars(EventStream)

\* The dashboard helpers alone, over bounded inputs.
NextDashboard ==
  \/ CallApplyFilters
  \/ CallKpi
  \/ CallBuildResponse
  \/ CallApplyFiltersSparse
  \/ CallColumnOptions
  \/ CallReturns

SpecDashboard == Init /\ [][NextDashboard]_vars

\* The source a dashboard request names: a table, an identifier that is no
\* table, the empty string.
SourceIds == {GLOBAL_TRADE, MANUFACTURING_RISK, "inventory", ""}

\* The filters of the dashboard requests: dicts of at most MaxFilters of
\* these items.
RequestFilterItems ==
  {"region", "industries", "value"} \X
    { Str("All"), Str("APAC"), Str("Pharma"), Str("Metals"),
      List(<<Num(4000), Num(5000)>>), List(<<Num(4000), None>>) }

RECURSIVE RequestFilterDicts(_)
RequestFilterDicts(n) ==
  IF n = 0 THEN {<<>>}
  ELSE LET shorter == RequestFilterDicts(n - 1)
       IN shorter \cup
          { Append(d, item) : d \in {e \in shorter : Len(e) = n - 1},
                              item \in RequestFilterItems }

RequestFilters == {d \in RequestFilterDicts(MaxFilters) : DistinctKeys(d)}

\* Bodies of POST /dashboard/query, with a source and without.
DashboardQueryRequests ==
  [ source : SourceIds, widgetType : AllWidgetTypes, prompt : {<<>>},
    filters : {d \in RequestFilters : Len(d) <= 1} ]
  \cup [ widgetType : AllWidgetTypes, prompt : {<<>>}, filters : {<<>>} ]

\* Bodies of POST /dashboard/options, with a source and without.
DashboardOptionsRequests ==
  [ source : SourceIds, column : {"region", "industries", "value", "sector"},
    filters : RequestFilters ]
  \cup [ column : {"region"}, filters : {<<>>} ]

\* The dashboard handlers called with a request, as the framework calls
\* them for a route.
CallSchema ==
  /\ call.fn = "none"
  /\ \E source \in SourceIds :
    /\ call' = [ fn |-> "get_dashboard_schema",
                 source |-> source,
                 out |-> SchemaResult(source) ]
    /\ UNCHANGED <<sessionVars, tables, streamVars, response>>

CallQuery ==
  /\ call.fn = "none"
  /\ \E payload \in DashboardQueryRequests :
    /\ call' = [ fn |-> "query_dashboard_data",
                 payload |-> payload,
                 out |-> QueryResult(payload) ]
    /\ UNCHANGED <<sessionVars, tables, streamVars, response>>

CallOptions ==
  /\ call.fn = "none"
  /\ \E payload \in DashboardOptionsRequests :
    /\ call' = [ fn |-> "get_dashboard_options",
                 payload |-> payload,
                 out |-> OptionsResult(payload) ]
    /\ UNCHANGED <<sessionVars, tables, streamVars, response>>

\* The dashboard endpoints alone, over all their requests.
NextRequests ==
  \/ CallSchema
  \/ CallQuery
  \/ CallOptions
  \/ CallReturns

SpecRequests == Init /\ [][NextRequests]_vars

-----------------------------------------------------------------------------
(* The /stream responder: claims C1 to C4, checked under SpecStream.       *)

\* The request being served carries a HITL action result (any JSON object).
CarriesHitl == pc # "idle" /\ req.hitl.t = "object"

\* The request being served carries none, so the canned plan answers it.
CarriesNoHitl == pc # "idle" /\ ~Truthy(req.hitl)

\* The first seven events of the canned plan, as the client reads them.
PlanHead ==
  << [render_type |-> "start", total_steps |-> 3],
     [render_type |-> "step", message |-> "Plan overview", step |-> 1],
     [render_type |-> "text", step |-> 1, step_name |-> "Plan overview",
      message |-> "I will propose a table schema for your products. "],
     [render_type |-> "text", step |-> 1, step_name |-> "Plan overview",
      message |-> "First I will list columns and types. "],
     [render_type |-> "text", step |-> 1, step_name |-> "Plan overview",
      message |-> "Then I will return the full table payload for rendering."],
     [render_type |-> "step", message |-> "Prepare table payload", step |-> 2],
     [render_type |-> "step", message |-> "Finalize", step |-> 3] >>

IsPlanEvent(k, e) ==
  IF k <= 7 THEN e = PlanHead[k]
  ELSE /\ e.render_type = "done"
       /\ e.meta.hitl.title = "Review and approve data model plan"
       /\ e.meta.tableDataString = table_rows

\* C1: a /stream request without a HITL action result is answered by the
\* eight events start, step 1, three text chunks of step 1, step 2, step 3,
\* done, in this order and nothing else, whatever the input text: what has
\* been emitted is always a prefix of that plan, the stream is cut short only
\* when the client is gone, and a stream that ran to its end emitted all
\* eight, the last carrying the HITL prompt and the table payload.
C1_FixedEventOrder ==
  CarriesNoHitl =>
    /\ pc # "error"
    /\ Len(events) <= 8
    /\ \A k \in 1..Len(events) : IsPlanEvent(k, events[k])
    /\ (conn = "open" => pc # "aborted")
    /\ (pc = "end" => Len(events) = 8)

C1_Witness ==
  /\ CarriesNoHitl
  /\ pc = "end"
  /\ conn = "open"
  /\ req.message = T_mysql
  /\ Len(events) = 8
  /\ events[8].render_type = "done"

NumText == Cardinality({k \in 1..Len(events) : events[k].render_type = "text"})

\* C2 as claimed: a disconnect check lies between every two consecutive
\* events of a canned-plan response, so after n events at least n - 1 checks
\* have been made.
C2_CheckBetweenAllEvents ==
  CarriesNoHitl => checks >= Len(events) - 1

\* C2 as amended: the disconnect check is made once before each text chunk
\* and nowhere else (start, the step markers and done are emitted
\* unchecked), and a check that finds the client gone ends the stream.
C2_CheckBeforeTextOnly ==
  CarriesNoHitl =>
    /\ checks = NumText + (IF pc \in {"text", "aborted"} THEN 1 ELSE 0)
    /\ checks <= 3
    /\ (pc = "aborted" => conn # "open" /\ Last(events).render_type \in {"step", "text"})
    /\ (pc \in {"step2", "step3", "done", "end"} => checks = 3)

C2_Witness ==
  /\ CarriesNoHitl
  /\ pc = "aborted"
  /\ checks = 2
  /\ Len(events) = 3

Echoed ==
  /\ CarriesHitl
  /\ req.ctype = JSON
  /\ "actionId" \in DOMAIN req.hitl.obj
  /\ pc = "end"

SuggestedIds == [k \in 1..Len(events[1].meta.suggestedQueries) |->
                   events[1].meta.suggestedQueries[k].id]

\* C4: in the HITL echo the suggested queries are chosen by the actionId
\* alone: submit_form, then modify or edit_schema, then everything else
\* (approve_plan too) select the three lists named, for every payload and
\* every message text.
C4_SuggestionsByActionId ==
  Echoed =>
    SuggestedIds =
      CASE req.hitl.obj["actionId"].s = "submit_form" ->
             <<"sq_generate_sql", "sq_edit_schema", "sq_validate_model", "sq_seed_data">>
        [] req.hitl.obj["actionId"].s \in {"modify", "edit_schema"} ->
             <<"sq_generate_sql", "sq_edit_schema", "sq_compare_versions",
               "sq_collect_requirements">>
        [] OTHER ->
             <<"sq_generate_sql", "sq_edit_schema", "sq_refine_constraints",
               "sq_add_indexes">>

C4_Witness ==
  /\ Echoed
  /\ req.hitl.obj["actionId"].s = "edit_schema"
  /\ req.message = T_sql
  /\ Get(req.hitl.obj, "payload") = Str("p2")
  /\ SuggestedIds[3] = "sq_compare_versions"

-----------------------------------------------------------------------------
(* The session store and the stateless handlers: claims C5 to C8, checked  *)
(* under Spec.                                                             *)

\* The record stored under key, or None when there is none.
SessionOf(d, key) == IF key \in Keys(d) THEN Lookup(d, key) ELSE None

\* C5: touch_session on an identifier in the store answers ok true and
\* changes nothing but the lastUpdated of that one session; on an identifier
\* not in the store it answers 404 with ok false and leaves the store as it
\* was, with no session created.
C5_TouchOnlyLastUpdated ==
  [][ \A sid \in Uuids :
        touch_session(sid) =>
          IF sid \in Keys(SESSIONS)
          THEN /\ response'.status = 200
               /\ response'.body.ok = TRUE
               /\ Len(SESSIONS') = Len(SESSIONS)
               /\ \A k \in 1..Len(SESSIONS) :
                    /\ SESSIONS'[k][1] = SESSIONS[k][1]
                    /\ SESSIONS[k][1] # sid => SESSIONS'[k] = SESSIONS[k]
                    /\ SESSIONS'[k][2].id = SESSIONS[k][2].id
                    /\ SESSIONS'[k][2].agent = SESSIONS[k][2].agent
                    /\ SESSIONS'[k][2].title = SESSIONS[k][2].title
                    /\ SESSIONS'[k][2].createdAt = SESSIONS[k][2].createdAt
          ELSE /\ response'.status = 404
               /\ response'.body.ok = FALSE
               /\ SESSIONS' = SESSIONS ]_vars

C5_Witness ==
  /\ response.op = "touch_session"
  /\ response.status = 200
  /\ Len(SESSIONS) = 2
  /\ SESSIONS[1][2].createdAt = 0
  /\ SESSIONS[1][2].lastUpdated = 0
  /\ SESSIONS[2][2].createdAt = 0
  /\ SESSIONS[2][2].lastUpdated = 1
  /\ clock = 1

\* C6: every record of the store has its key as its id and no key occurs
\* twice; each create_session adds exactly one entry, under a key the store
\* did not have, and leaves every entry that was there as it was.
C6_KeysAreIds ==
  /\ [](\A k \in 1..Len(SESSIONS) :
          /\ SESSIONS[k][2].id = SESSIONS[k][1]
          /\ \A j \in 1..Len(SESSIONS) : j # k => SESSIONS[j][1] # SESSIONS[k][1])
  /\ [][ \A payload \in SessionPayloads :
           create_session(payload) =>
             /\ Len(SESSIONS') = Len(SESSIONS) + 1
             /\ SubSeq(SESSIONS', 1, Len(SESSIONS)) = SESSIONS
             /\ SESSIONS'[Len(SESSIONS')][1] \notin Keys(SESSIONS)
             /\ response'.body = SESSIONS'[Len(SESSIONS')][2] ]_vars

C6_Witness ==
  /\ response.op = "create_session"
  /\ Len(SESSIONS) = 2
  /\ response.body = SESSIONS[2][2]
  /\ SESSIONS[1][2].id # SESSIONS[2][2].id
  /\ SESSIONS[1][2].title = SESSIONS[2][2].title

\* C7: no step but clear_sessions takes a session out of the store, whatever
\* handler or stream step it is; list_sessions returns the sessions of the
\* store; clear_sessions empties the store, and on the empty store
\* touch_session answers 404 for every identifier.
C7_NoEviction ==
  [][ /\ ~clear_sessions =>
           \A key \in Keys(SESSIONS) :
             /\ key \in Keys(SESSIONS')
             /\ SessionOf(SESSIONS', key).createdAt = SessionOf(SESSIONS, key).createdAt
      /\ clear_sessions => SESSIONS' = <<>>
      /\ list_sessions =>
           /\ Len(response'.body) = Len(SESSIONS)
           /\ \A key \in Keys(SESSIONS) :
                \E k \in 1..Len(response'.body) :
                  response'.body[k] = SessionOf(SESSIONS, key)
      /\ SESSIONS = <<>> =>
           \A sid \in Uuids : touch_session(sid) => response'.status = 404 ]_vars

C7_Witness ==
  /\ response.op = "touch_session"
  /\ response.status = 404
  /\ SESSIONS = <<>>
  /\ \E sid \in issued : sid[2] = 1
  /\ pc = "sleep"

\* A step of one of the session handlers that write the store.
SessionWrite ==
  \/ \E payload \in SessionPayloads : create_session(payload)
  \/ \E sid \in Uuids : touch_session(sid)
  \/ clear_sessions

\* C8: a step that is not a session handler's (/stream and its generator,
\* /createDataModel, every /dashboard endpoint) leaves the session store
\* unchanged; no step at all changes the dashboard tables; and a dashboard
\* query is answered the same whatever was served before it: the kpi over
\* the APAC rows is 100/100 with a change of +7.1% on the manufacturing-risk
\* table and +7.7% on the table an unknown source falls back to.
C8_StatelessHandlers ==
  /\ [][~SessionWrite => SESSIONS' = SESSIONS]_vars
  /\ [](tables = DASHBOARD_DATA_SOURCES)
  /\ [](response.op = "query_dashboard_data" =>
          /\ response.status = 200
          /\ response.body.data[1].value = [kind |-> "score", n |-> 100]
          /\ response.body.data[1].change =
               [sign |-> "+",
                tenths |-> IF response.body.source = MANUFACTURING_RISK
                           THEN 71 ELSE 77])
  /\ [](response.op = "get_dashboard_options" =>
          response.body.options = <<"All", "APAC", "Americas">>)

C8_Witness ==
  /\ response.op = "query_dashboard_data"
  /\ response.body.source = "inventory"
  /\ Len(SESSIONS) = 2
  /\ pc = "text"
  /\ conn = "closed"

-----------------------------------------------------------------------------
(* The dashboard helpers: claims C9 and C10, checked under SpecDashboard.  *)

Reverse(s) == [k \in 1..Len(s) |-> s[Len(s) + 1 - k]]

\* What the claim says one filter keeps of a row.
Satisfies(row, key, value) ==
  LET cell == Get(row, key)
      Within(lo, hi) ==
        /\ cell.t = "num"
        /\ Floatable(lo) /\ Floatable(hi)
        /\ Float(lo) <= cell.n /\ cell.n <= Float(hi)
  IN IF value \in {None, Str(""), Str("All")} THEN TRUE
     ELSE IF value.t = "list" /\ Len(value.items) = 2
     THEN Within(value.items[1], value.items[2])
     ELSE IF value.t = "dict" /\ {"min", "max"} \subseteq DOMAIN value
     THEN Within(value.min, value.max)
     ELSE PyStr(cell) = PyStr(value)

SatisfiesAll(row, filters) ==
  \A k \in 1..Len(filters) : Satisfies(row, filters[k][1], filters[k][2])

Filtered == call.fn = "apply_dashboard_filters"

\* C9: apply_dashboard_filters returns exactly the rows that satisfy every
\* active filter, in their original order (None, "" and "All" are ignored, a
\* two-element list or a {min, max} mapping is an inclusive numeric range,
\* anything else is equality of the strings); the result is the same with
\* the filters listed in the opposite order, and filtering the result again
\* changes nothing.
C9_FiltersExact ==
  Filtered =>
    /\ call.out.ok
    /\ call.out.rows =
         SelectSeq(call.rows, LAMBDA row : SatisfiesAll(row, call.filters))
    /\ apply_dashboard_filters(call.rows, Reverse(call.filters)) = call.out
    /\ apply_dashboard_filters(call.out.rows, call.filters) = call.out

KpiBuilt == call.fn = "build_dashboard_response" /\ call.widget_type = "kpi"

\* The value, the change and the flag the claim describes, for the totals
\* cur and prev, in the record k the kpi widget returned.
KpiChangeAsClaimed(k, cur, prev) ==
  /\ prev <= 0 => k.change = [sign |-> "+", tenths |-> 0] /\ k.positive
  /\ prev > 0 =>
       /\ k.change.sign = (IF cur >= prev THEN "+" ELSE "-")
       /\ 2 * Abs(k.change.tenths * prev - 1000 * Abs(cur - prev)) <= prev
       /\ k.positive = (cur >= prev)

KpiScoreAsClaimed(k, cur) ==
  /\ k.value.kind = "score"
  /\ k.value.n \in 0..100
  /\ cur < 120 => k.value.n = 0
  /\ (cur >= 0 /\ cur < 12000) =>
       120 * k.value.n <= cur /\ cur < 120 * (k.value.n + 1)
  /\ cur >= 12000 => k.value.n = 100

\* C10 as claimed: the kpi widget reports the sum of value and its percent
\* change against the sum of prev (0 when that sum is not positive), the
\* flag being true exactly when the change is not negative; the value is the
\* score sum / 120, truncated and clamped to 0..100, for a prompt that
\* contains "risk", and the sum for any other prompt.
C10_KpiRiskAsWritten ==
  KpiBuilt =>
    LET cur == SumOf(call.rows, "value")
        prev == SumOf(call.rows, "prev")
    IN /\ Len(call.out) = 1
       /\ KpiChangeAsClaimed(call.out[1], cur, prev)
       /\ IF Contains(call.prompt, T_risk)
          THEN KpiScoreAsClaimed(call.out[1], cur)
          ELSE call.out[1].value = [kind |-> "money", n |-> cur]

\* C10 as amended: the same, the score being reported for a prompt that
\* contains "risk" in any letter case.
C10_KpiChange ==
  KpiBuilt =>
    LET cur == SumOf(call.rows, "value")
        prev == SumOf(call.rows, "prev")
    IN /\ Len(call.out) = 1
       /\ KpiChangeAsClaimed(call.out[1], cur, prev)
       /\ IF Contains(LowerText(call.prompt), T_risk)
          THEN KpiScoreAsClaimed(call.out[1], cur)
          ELSE call.out[1].value = [kind |-> "money", n |-> cur]

C10_Witness ==
  /\ KpiBuilt
  /\ call.prompt = T_RISK_upper
  /\ call.rows = << [value |-> Num(120), prev |-> Num(120)],
                    [value |-> Num(90), prev |-> Num(120)] >>
  /\ call.out[1].value = [kind |-> "score", n |-> 1]
  /\ call.out[1].change = [sign |-> "-", tenths |-> 125]
  /\ ~call.out[1].positive


-----------------------------------------------------------------------------
(* The aggregations and the missing keys: claims C11 and C12, checked      *)
(* under SpecDashboard.                                                    *)

PieBuilt == call.fn = "build_dashboard_response" /\ call.widget_type = "pie"

\* A string-valued column of a row other than name.
IsStringColumn(row, c) == c \in DOMAIN row /\ row[c].t = "str" /\ c # "name"

\* The first of them in the order of the row's keys.
FirstStringColumn(row) ==
  Columns[CHOOSE k \in 1..Len(Columns) :
            /\ IsStringColumn(row, Columns[k])
            /\ \A j \in 1..(k - 1) : ~IsStringColumn(row, Columns[j])]

RECURSIVE SumEntries(_)
\* The sum of the values of the entries of a pie.
SumEntries(entries) ==
  IF entries = <<>> THEN 0 ELSE entries[1].value + SumEntries(Tail(entries))

\* C11: the pie widget is a grouped sum that conserves the total. With no
\* rows it is empty; otherwise the group column is the first string-valued
\* column of the first row other than name, every distinct value of that
\* column among the rows is the name of exactly one entry, whose value is
\* the sum of value over the rows with that group value, there is no other
\* entry, and the entries' values add up to the sum of value over all rows.
C11_PieGroupedSum ==
  PieBuilt =>
    LET rows == call.rows
        out == call.out
    IN /\ rows = <<>> => out = <<>>
       /\ SumEntries(out) = SumOf(rows, "value")
       /\ (rows # <<>> /\ \E c \in DOMAIN rows[1] : IsStringColumn(rows[1], c)) =>
            LET col == FirstStringColumn(rows[1])
                Grouped_by(v) == SelectSeq(rows, LAMBDA row : Get(row, col) = Str(v))
            IN /\ \A k \in 1..Len(out) :
                    out[k]._filterKey = col /\ out[k]._filterValue = out[k].name
               /\ (\A j \in 1..Len(rows) : IsStringColumn(rows[j], col)) =>
                    /\ \A j \in 1..Len(rows) :
                         LET v == rows[j][col].s
                             at == {k \in 1..Len(out) : out[k].name = v}
                         IN /\ Cardinality(at) = 1
                            /\ \A k \in at :
                                 out[k].value = SumOf(Grouped_by(v), "value")
                    /\ \A k \in 1..Len(out) :
                         \E j \in 1..Len(rows) : rows[j][col].s = out[k].name

\* The pie of the whole global-trade table: two groups of several rows.
C11_Witness ==
  /\ PieBuilt
  /\ call.rows = DASHBOARD_DATA_SOURCES[GLOBAL_TRADE].rows
  /\ call.out =
       << [name |-> "Imports", value |-> 19530,
           _filterKey |-> "imports_exports", _filterValue |-> "Imports"],
          [name |-> "Exports", value |-> 14450,
           _filterKey |-> "imports_exports", _filterValue |-> "Exports"] >>


\* No row has the key.
MissingKey(rows, key) == \A j \in 1..Len(rows) : key \notin DOMAIN rows[j]

\* A filter that apply_dashboard_filters does not skip.
Active(value) == value \notin {None, Str(""), Str("All")}

\* A range filter one of whose bounds float() rejects.
BadRange(value) ==
  \/ /\ value.t = "list" /\ Len(value.items) = 2
     /\ ~(Floatable(value.items[1]) /\ Floatable(value.items[2]))
  \/ /\ value.t = "dict" /\ {"min", "max"} \subseteq DOMAIN value
     /\ ~(Floatable(value.min) /\ Floatable(value.max))

\* C12, filters: a filter on a key that no row has never raises. When no
\* row has any of the filters' keys the result is the empty row set, or the
\* rows unchanged when every active filter asks for the string "None" (the
\* str() of a missing value); and whenever the filters do raise, it is a
\* range filter with a bound that is not a number, on a key under which
\* some row has a number.
MissingFilterKeysAreNormal ==
  Filtered =>
    LET rows == call.rows
        filters == call.filters
        items == 1..Len(filters)
    IN /\ (\A k \in items : MissingKey(rows, filters[k][1])) =>
            /\ call.out.ok
            /\ call.out.rows =
                 IF \A k \in items :
                      Active(filters[k][2]) => filters[k][2] = Str("None")
                 THEN rows ELSE <<>>
       /\ ~call.out.ok =>
            \E k \in items :
              /\ BadRange(filters[k][2])
              /\ \E j \in 1..Len(rows) : IsNumber(Get(rows[j], filters[k][1]))

\* C12, widgets: an unknown widget type returns the rows unchanged;
\* filter-range is [0, 100] on no rows and counts a missing value as 0; kpi
\* sums missing value and prev as 0; pie puts the rows without the group
\* column in the group "Unknown" and counts a missing value as 0.
MissingColumnsAreNormal ==
  call.fn = "build_dashboard_response" =>
    LET rows == call.rows
        out == call.out
        NoValue == MissingKey(rows, "value")
    IN /\ call.widget_type \notin {"filter-range", "pie", "kpi"} => out = rows
       /\ call.widget_type = "filter-range" =>
            /\ rows = <<>> => out = <<0, 100>>
            /\ (rows # <<>> /\ NoValue) => out = <<0, 0>>
       /\ call.widget_type = "kpi" =>
            /\ Len(out) = 1
            /\ NoValue => out[1].value.n = 0
            /\ MissingKey(rows, "prev") =>
                 out[1].change = [sign |-> "+", tenths |-> 0] /\ out[1].positive
       /\ call.widget_type = "pie" =>
            /\ \A k \in 1..Len(out) :
                 (\E j \in 1..Len(rows) : out[k]._filterKey \notin DOMAIN rows[j])
                   => \E h \in 1..Len(out) : out[h].name = "Unknown"
            /\ (rows # <<>> /\ MissingKey(rows, "industries")
                 /\ \A c \in DOMAIN rows[1] : ~IsStringColumn(rows[1], c)) =>
                 /\ Len(out) = 1
                 /\ out[1].name = "Unknown"
                 /\ out[1]._filterKey = "industries"
            /\ NoValue => \A k \in 1..Len(out) : out[k].value = 0

\* C12, options: a column that no row has gives the options ["All"].
MissingColumnHasNoOptions ==
  (call.fn = "get_dashboard_column_options" /\ MissingKey(call.rows, call.column))
    => call.out = <<"All">>

\* C12: dashboard requests do not crash on missing keys. For every widget
\* type, known or not, and every filter set, a filter key or a column name
\* that no row has, and rows lacking value or prev, give a normal result
\* (an empty row set, an "Unknown" group, a zero sum, [0, 100] for
\* filter-range on no rows, the options ["All"]) and never an error.
C12_NoCrashOnMissingKeys ==
  /\ MissingFilterKeysAreNormal
  /\ MissingColumnsAreNormal
  /\ MissingColumnHasNoOptions

\* A pie of two rows without value, one of them without the group column.
C12_Witness ==
  /\ PieBuilt
  /\ call.rows = << [name |-> Str("Feb"), region |-> Str("APAC"), prev |-> Num(3800)],
                    [name |-> Str("Mar")] >>
  /\ call.out =
       << [name |-> "APAC", value |-> 0,
           _filterKey |-> "region", _filterValue |-> "APAC"],
          [name |-> "Unknown", value |-> 0,
           _filterKey |-> "region", _filterValue |-> "Unknown"] >>


-----------------------------------------------------------------------------
(* The end of a stream: claim C13, checked under SpecStreamLive.           *)

\* The canned plan is answering the request.
RunsPlan == pc \notin {"idle", "error"} /\ ~ParsesHitl(req)

IsDone(e) == e.render_type = "done"

\* A done event is the last event and there is no other; a stream that
\* returned early holds the events up to the text chunk that was pending
\* and no done; a stream that ran to its end ends with done.
DoneOnlyLast ==
  RunsPlan =>
    /\ \A k \in 1..Len(events) : IsDone(events[k]) => k = Len(events)
    /\ pc = "aborted" =>
         /\ conn # "open"
         /\ Len(events) = 2 + (chunk - 1)
         /\ NumText = chunk - 1
         /\ \A k \in 1..Len(events) : ~IsDone(events[k])
    /\ pc = "end" =>
         /\ Len(events) = 8
         /\ IsDone(Last(events))
         /\ checks = Len(chunks)

\* A check that finds the client gone, or that raises, ends the stream at
\* once, and a stream that has ended emits nothing more.
GoneEndsAtOnce ==
  /\ (pc = "check" /\ conn # "open" /\ pc' # pc) =>
       pc' = "aborted" /\ events' = events
  /\ (pc = "check" /\ conn = "open" /\ pc' # pc) => pc' = "text"
  /\ (RunsPlan /\ Finished /\ pc' # "idle") => events' = events /\ pc' = pc

\* C13: every canned-plan /stream response terminates, and a done event is
\* emitted at most once and only as the last event: when a disconnect check
\* reports the client gone (or raises, which counts as gone) the stream ends
\* at once without the pending text chunk, any later event or done;
\* otherwise it ends with done.
C13_TerminatesDoneLast ==
  /\ []DoneOnlyLast
  /\ [][GoneEndsAtOnce]_vars
  /\ (RunsPlan ~> Finished)

\* A stream cut short at the second check, by a check that raised.
C13_Witness ==
  /\ RunsPlan
  /\ pc = "aborted"
  /\ conn = "broken"
  /\ checks = 2
  /\ Len(events) = 3
  /\ events[3].render_type = "text"


-----------------------------------------------------------------------------
(* The dashboard endpoints: claims C14 and C15, checked under SpecRequests. *)

\* The table a request for a source identifier is to be answered from.
TableFor(source_id) ==
  IF source_id \in {GLOBAL_TRADE, MANUFACTURING_RISK} THEN source_id
  ELSE GLOBAL_TRADE

\* The rows of a table as the module's literal gives them.
RowsOf(table) == DASHBOARD_DATA_SOURCES[table].rows

\* The source a request names; "" when it names none.
NamedSource(payload) ==
  IF "source" \in DOMAIN payload THEN payload.source ELSE ""

\* The handler's answer was computed from the rows of the table: the schema
\* of those rows, the widget of those rows filtered, the options of those
\* rows filtered by the filters on the other columns. (Filters that raise
\* are answered with the same 500 whatever the table: claim C9.)
AnsweredFrom(table) ==
  /\ call.fn = "get_dashboard_schema" =>
       /\ call.out.status = 200
       /\ call.out.body.schema = infer_dashboard_schema(RowsOf(table))
  /\ call.fn = "query_dashboard_data" =>
       LET rows == apply_dashboard_filters(RowsOf(table), call.payload.filters)
       IN IF rows.ok
          THEN /\ call.out.status = 200
               /\ call.out.body.data =
                    build_dashboard_response(call.payload.widgetType, rows.rows,
                                             call.payload.prompt)
          ELSE call.out.status = 500
  /\ call.fn = "get_dashboard_options" =>
       LET others == SelectSeq(call.payload.filters,
                               LAMBDA f : f[1] # call.payload.column)
           rows == apply_dashboard_filters(RowsOf(table), others)
       IN IF rows.ok
          THEN /\ call.out.status = 200
               /\ call.out.body.options =
                    get_dashboard_column_options(rows.rows, call.payload.column)
          ELSE call.out.status = 500

SchemaCalled == call.fn = "get_dashboard_schema"
PostCalled == call.fn \in {"query_dashboard_data", "get_dashboard_options"}

\* C14 as claimed: a dashboard request that names an identifier which is
\* not one of the two tables, or names none, is answered from the
\* global-trade table and not with an error, and the source field of every
\* response names the table the data was taken from.
C14_SourceFieldNamesTable ==
  /\ SchemaCalled =>
       /\ AnsweredFrom(TableFor(call.source))
       /\ call.out.body.source = TableFor(call.source)
  /\ PostCalled =>
       /\ AnsweredFrom(TableFor(NamedSource(call.payload)))
       /\ call.out.status = 200 =>
            call.out.body.source = TableFor(NamedSource(call.payload))

\* C14 as amended: an identifier that is not one of the two tables is
\* answered from the global-trade table and not with an error, as is
\* /dashboard/schema asked with no source; /dashboard/query and
\* /dashboard/options asked with no source are refused (422); and the source
\* field of a response repeats the identifier the request named
\* (global-trade when the schema was asked with none), whichever table the
\* data was taken from.
C14_SourceFieldEchoesRequest ==
  /\ SchemaCalled =>
       /\ AnsweredFrom(TableFor(call.source))
       /\ call.out.body.source =
            IF call.source = "" THEN GLOBAL_TRADE ELSE call.source
  /\ PostCalled =>
       IF "source" \in DOMAIN call.payload
       THEN /\ AnsweredFrom(TableFor(call.payload.source))
            /\ call.out.status = 200 =>
                 call.out.body.source = call.payload.source
       ELSE call.out.status = 422

\* The rows of an unknown source, unfiltered: the seven rows of global-trade
\* under the name the request gave.
C14_Witness ==
  /\ call.fn = "query_dashboard_data"
  /\ call.payload.source = "inventory"
  /\ call.payload.widgetType = "bar"
  /\ call.payload.filters = <<>>
  /\ call.out.status = 200
  /\ call.out.body.source = "inventory"
  /\ call.out.body.data = DASHBOARD_DATA_SOURCES[GLOBAL_TRADE].rows


OptionsCalled ==
  call.fn = "get_dashboard_options" /\ "source" \in DOMAIN call.payload

\* The filters of a request on the columns other than its own.
OtherFilters(payload) ==
  SelectSeq(payload.filters, LAMBDA f : f[1] # payload.column)

\* The request with its own column's filter set to a value.
WithOwnFilter(payload, value) ==
  [payload EXCEPT !.filters = Append(OtherFilters(payload), <<payload.column, value>>)]

\* The values a filter of the requests may have.
RequestFilterValues == {item[2] : item \in RequestFilterItems}

\* C15: the options /dashboard/options returns for a column do not depend
\* on the filter set on that column: the answer is the same with that
\* filter removed or set to any other value; the options are "All" followed
\* by the sorted distinct non-empty values of the column among the rows that
\* pass every other filter; and a value selected for the column is among
\* the options whenever some row passes the other filters with that value.
C15_OptionsIgnoreOwnFilter ==
  OptionsCalled =>
    LET payload == call.payload
        column == payload.column
        others == OtherFilters(payload)
        passing == SelectSeq(RowsOf(TableFor(payload.source)),
                             LAMBDA row : SatisfiesAll(row, others))
        values == { PyStr(Get(passing[j], column)) :
                      j \in {k \in 1..Len(passing) :
                               /\ Get(passing[k], column) # None
                               /\ PyStr(Get(passing[k], column)) # ""} }
    IN /\ call.out = OptionsResult([payload EXCEPT !.filters = others])
       /\ \A v \in RequestFilterValues :
            call.out = OptionsResult(WithOwnFilter(payload, v))
       /\ call.out.status = 200 =>
            /\ call.out.body.options = <<"All">> \o Sorted(values)
            /\ \A k \in 1..Len(payload.filters) :
                 LET f == payload.filters[k]
                 IN (/\ f[1] = column
                     /\ f[2].t = "str"
                     /\ \E j \in 1..Len(passing) :
                          Get(passing[j], column) = f[2])
                    => \E h \in 1..Len(call.out.body.options) :
                         call.out.body.options[h] = f[2].s

\* The regions offered while APAC is selected and the industry is Pharma:
\* both regions that have Pharma rows.
C15_Witness ==
  /\ OptionsCalled
  /\ call.payload.source = GLOBAL_TRADE
  /\ call.payload.column = "region"
  /\ call.payload.filters =
       << <<"region", Str("APAC")>>, <<"industries", Str("Pharma")>> >>
  /\ call.out.status = 200
  /\ call.out.body.options = <<"All", "APAC", "Americas">>

=============================================================================
